---- MODULE Spec2Model ----
(***************************************************************************)
(* reel-moby: the interactive control loop of src/ui/default.rs (Ui::run),  *)
(* the stdin listener of src/ui/mod.rs and the repository-name validator    *)
(* and tag fetcher of src/tags.rs.                                          *)
(*                                                                         *)
(* Texts are sequences of Unicode scalar values (Rust `char`s); a Rust      *)
(* String is their UTF-8 encoding, computed by Bytes.  The widgets          *)
(* (RepoEntry, TagList, ServiceSwitcher, Details, Info) live in             *)
(* crate::widget, outside the sources at hand; they are modelled from       *)
(* their contracts in spec.md section 4.3.                                  *)
(***************************************************************************)
EXTENDS Integers, Sequences, FiniteSets, TLC

\* Number of keys the listener thread produces in one run.
MaxKeys == 4
\* Number of keys waiting in the channel at any time.
MaxQueue == 2
\* Length of the repository names given to check_repo.
MaxLen == 3
\* Number of whole weeks of the durations given to format_time_nice.
MaxWeeks == 105

VARIABLES
    state,      \* Ui.state: the InteractionState
    pc,         \* the core loop: "loop" while it cycles, "done" after break
    queue,      \* the mpsc channel between the listener and the core loop:
                \* the keys in flight, each with its place in the sending order
    produced,   \* number of keys the listener has sent so far
    taken,      \* number of keys the core loop has received so far
    screen,     \* what terminal.draw last rendered
    repo,       \* Ui.repo: the RepoEntry widget
    tags,       \* Ui.tags: the TagList widget
    services,   \* Ui.services: the ServiceSwitcher widget
    details,    \* Ui.details: the Details widget
    info,       \* Ui.info: the message shown by the Info widget
    disk,       \* the persisted service-definition file
    fetchLog,   \* the tag-listing requests issued by the last key handled
    saveLog,    \* the outcomes of the save() calls of the last key handled
    tabs,       \* number of cycle keys dispatched so far, modulo 3
    ev,         \* the match arm taken for the last key received
    input,      \* the String given to Tags::check_repo
    checked,    \* what Tags::check_repo returned for it
    time,       \* the chrono::Duration given to format_time_nice, in seconds
    age         \* what format_time_nice returned for it

vars == <<state, pc, queue, produced, taken, screen, repo, tags, services,
          details, info, disk, fetchLog, saveLog, tabs, ev, input, checked,
          time, age>>

\* The arguments and results of the functions of tags.rs called on their own
units == <<input, checked, time, age>>

widgets == <<repo, tags, services, details, info>>

----------------------------------------------------------------------------
\* Texts

\* "mysql"
Mysql == <<109, 121, 115, 113, 108>>
\* "library/"
LibraryPrefix == <<108, 105, 98, 114, 97, 114, 121, 47>>
\* "nginx"
Nginx == <<110, 103, 105, 110, 120>>
\* "ngä"
NgUmlaut == <<110, 103, 228>>
\* "latest"
Latest == <<108, 97, 116, 101, 115, 116>>
\* "5.7"
V57 == <<53, 46, 55>>

\* char::encode_utf8 for scalar values below U+10000
Utf8(c) ==
    IF c < 128 THEN <<c>>
    ELSE IF c < 2048 THEN <<192 + (c \div 64), 128 + (c % 64)>>
    ELSE <<224 + (c \div 4096), 128 + ((c \div 64) % 64), 128 + (c % 64)>>

RECURSIVE Bytes(_)
Bytes(s) == IF s = <<>> THEN <<>> ELSE Utf8(Head(s)) \o Bytes(Tail(s))

\* u8::is_ascii
IsAscii(b) == b <= 127

\* regex ".*/.*" is_match
HasSeparator(name) == \E i \in DOMAIN name : name[i] = 47

----------------------------------------------------------------------------
\* InteractionState

States == {"EditRepo", "SelectTag", "SelectService"}

StateNextSkip(s) ==
    CASE s = "EditRepo" -> "SelectService"
      [] s = "SelectTag" -> "SelectService"
      [] s = "SelectService" -> "EditRepo"

\* impl Iterator for State: next
StateNext(s) ==
    CASE s = "EditRepo" -> "SelectTag"
      [] s = "SelectTag" -> "SelectService"
      [] s = "SelectService" -> "EditRepo"

\* impl Display for State
StateDisplay(s) ==
    CASE s = "EditRepo" -> "Edit repository"
      [] s = "SelectTag" -> "Select a tag"
      [] s = "SelectService" -> "Select a image"

----------------------------------------------------------------------------
\* tags.rs: errors, validator, fetcher

\* impl Display for tags::Error
ErrorDisplay(e) ==
    CASE e = "InvalidCharacter" -> "Invalid Character: a"
      [] e = "Fetching" -> "Fetching error: reqwest error"
      [] e = "Converting" -> "Converting error: invalid json"

check_repo_always_prefix(name) ==
    IF \E i \in DOMAIN Bytes(name) : ~IsAscii(Bytes(name)[i])
    THEN [ok |-> FALSE, val |-> <<>>, err |-> "InvalidCharacter"]
    ELSE [ok |-> TRUE, val |-> LibraryPrefix \o name, err |-> ""]

check_repo_separator_first(name) ==
    IF HasSeparator(name)
    THEN [ok |-> TRUE, val |-> name, err |-> ""]
    ELSE IF \E i \in DOMAIN Bytes(name) : ~IsAscii(Bytes(name)[i])
    THEN [ok |-> FALSE, val |-> <<>>, err |-> "InvalidCharacter"]
    ELSE [ok |-> TRUE, val |-> LibraryPrefix \o name, err |-> ""]

\* Tags::check_repo
check_repo(name) ==
    IF \E i \in DOMAIN Bytes(name) : ~IsAscii(Bytes(name)[i])
    THEN [ok |-> FALSE, val |-> <<>>, err |-> "InvalidCharacter"]
    ELSE [ok |-> TRUE,
          val |-> IF ~HasSeparator(name) THEN LibraryPrefix \o name ELSE name,
          err |-> ""]

\* What the registry answers to one request: a transport failure, a body
\* that is not the expected JSON, or one page of tags.
Page0 == [results |-> <<>>, next_page |-> "page=1", prev_page |-> "None"]
Page1 == [results |-> <<Latest>>, next_page |-> "page=2", prev_page |-> "None"]
Page2 == [results |-> <<V57>>, next_page |-> "None", prev_page |-> "page=1"]
NoPage == [results |-> <<>>, next_page |-> "None", prev_page |-> "None"]

Responses == {"transport", "badjson", "page0", "page1", "page2"}

\* Tags::new: one blocking request, one page
TagsNew(request, resp) ==
    CASE resp = "transport" -> [ok |-> FALSE, val |-> NoPage, err |-> "Fetching"]
      [] resp = "badjson" -> [ok |-> FALSE, val |-> NoPage, err |-> "Converting"]
      [] resp = "page0" -> [ok |-> TRUE, val |-> Page0, err |-> ""]
      [] resp = "page1" -> [ok |-> TRUE, val |-> Page1, err |-> ""]
      [] resp = "page2" -> [ok |-> TRUE, val |-> Page2, err |-> ""]

\* i64 division: the quotient is truncated towards zero
TruncDiv(a, b) == IF a >= 0 THEN a \div b ELSE -((-a) \div b)

\* `(weeks / 52) as i32`: a chrono::Duration holds fewer than 2^63
\* milliseconds, so its weeks / 52 is below 2^29 and the cast keeps the value
AsI32(x) == x

\* chrono::Duration, a number of seconds: num_seconds, num_minutes,
\* num_hours, num_days, num_weeks (whole units, truncated towards zero)
num_seconds(t) == t
num_minutes(t) == TruncDiv(num_seconds(t), 60)
num_hours(t) == TruncDiv(num_seconds(t), 3600)
num_days(t) == TruncDiv(num_seconds(t), 86400)
num_weeks(t) == TruncDiv(num_days(t), 7)

\* format!("{} <unit>", n)
Label(n, unit) == [n |-> n, unit |-> unit]

format_time_nice_late_years(t) ==
    IF num_weeks(t) = 52
    THEN Label(AsI32(TruncDiv(num_weeks(t), 52)), "Jahr")
    ELSE IF num_weeks(t) > 104
    THEN Label(AsI32(TruncDiv(num_weeks(t), 52)), "Jahren")
    ELSE IF num_days(t) = 1 THEN Label(num_days(t), "Tag")
    ELSE IF num_days(t) > 1 THEN Label(num_days(t), "Tagen")
    ELSE IF num_hours(t) = 1 THEN Label(num_hours(t), "Stunde")
    ELSE IF num_hours(t) > 1 THEN Label(num_hours(t), "Stunden")
    ELSE IF num_minutes(t) = 1 THEN Label(num_minutes(t), "Minute")
    ELSE IF num_minutes(t) > 1 THEN Label(num_minutes(t), "Minuten")
    ELSE Label(num_seconds(t), "Sekunden")

format_time_nice_every_year(t) ==
    IF num_weeks(t) = 52
    THEN Label(AsI32(TruncDiv(num_weeks(t), 52)), "Jahr")
    ELSE IF num_weeks(t) > 52
    THEN Label(AsI32(TruncDiv(num_weeks(t), 52)), "Jahren")
    ELSE IF num_days(t) = 1 THEN Label(num_days(t), "Tag")
    ELSE IF num_days(t) > 1 THEN Label(num_days(t), "Tagen")
    ELSE IF num_hours(t) = 1 THEN Label(num_hours(t), "Stunde")
    ELSE IF num_hours(t) > 1 THEN Label(num_hours(t), "Stunden")
    ELSE IF num_minutes(t) = 1 THEN Label(num_minutes(t), "Minute")
    ELSE IF num_minutes(t) > 1 THEN Label(num_minutes(t), "Minuten")
    ELSE Label(num_seconds(t), "Sekunden")

\* format_time_nice: the first branch whose condition holds makes the label
format_time_nice(t) ==
    IF num_weeks(t) = 52
    THEN Label(AsI32(TruncDiv(num_weeks(t), 52)), "Jahr")
    ELSE IF num_weeks(t) > 103
    THEN Label(AsI32(TruncDiv(num_weeks(t), 52)), "Jahren")
    ELSE IF num_days(t) = 1 THEN Label(num_days(t), "Tag")
    ELSE IF num_days(t) > 1 THEN Label(num_days(t), "Tagen")
    ELSE IF num_hours(t) = 1 THEN Label(num_hours(t), "Stunde")
    ELSE IF num_hours(t) > 1 THEN Label(num_hours(t), "Stunden")
    ELSE IF num_minutes(t) = 1 THEN Label(num_minutes(t), "Minute")
    ELSE IF num_minutes(t) > 1 THEN Label(num_minutes(t), "Minuten")
    ELSE Label(num_seconds(t), "Sekunden")

----------------------------------------------------------------------------
\* Keys (termion::event::Key): Tab is Char('\t'), Enter is Char('\n')

Ctrl(c) == [c |-> c, k |-> "Ctrl"]
Char(c) == [c |-> c, k |-> "Char"]
Plain(k) == [c |-> 0, k |-> k]

KeyQuit == Ctrl(113)
KeySave == Ctrl(115)
KeyReload == Ctrl(114)
KeyTab == Char(9)
KeyEnter == Char(10)

\* The keys the listener may decode: the bound ones, the letters 'a' and
\* 'ä', and Esc as a key no arm is bound to.
Keys == {KeyQuit, KeySave, KeyReload, KeyTab, KeyEnter, Char(97), Char(228),
         Plain("Backspace"), Plain("Up"), Plain("Down"), Plain("Esc")}

----------------------------------------------------------------------------
\* RepoEntry widget (spec.md 4.3): a text buffer edited at its end, and the
\* repository name last committed by confirm().

\* RepoEntry::new
repo_new(opt) ==
    [text |-> IF opt.some THEN opt.text ELSE <<>>,
     active |-> IF opt.some THEN opt.text ELSE <<>>]

\* RepoEntry::get
repo_get(r) == r.text

\* RepoEntry::set
repo_set(r, text) == [r EXCEPT !.text = text]

\* RepoEntry::confirm
repo_confirm(r) == [r EXCEPT !.active = r.text]

\* RepoEntry::handle_input: insert at the cursor, delete before the cursor
repo_handle_input(r, key) ==
    CASE key.k = "Char" -> [r EXCEPT !.text = Append(r.text, key.c)]
      [] key.k = "Backspace" /\ r.text # <<>> ->
            [r EXCEPT !.text = SubSeq(r.text, 1, Len(r.text) - 1)]
      [] OTHER -> r

----------------------------------------------------------------------------
\* TagList widget (spec.md 4.3): rows (tags, a status or error line, a
\* pagination placeholder), a bounded cursor (0: no row highlighted) and the
\* forward cursor of the page shown.

TagRow(name) == [name |-> name, kind |-> "tag", msg |-> ""]
StatusRow(msg) == [name |-> <<>>, kind |-> "status", msg |-> msg]
NextRow == [name |-> <<>>, kind |-> "next", msg |-> "load more tags"]

\* TagList::with_status
with_status(msg) ==
    [rows |-> <<StatusRow(msg)>>, cursor |-> 0, next_page |-> "None"]

\* TagList::with_tags
with_tags(page) ==
    [rows |-> [i \in 1..Len(page.results) |-> TagRow(page.results[i])]
              \o (IF page.next_page # "None" THEN <<NextRow>> ELSE <<>>),
     cursor |-> 0,
     next_page |-> page.next_page]

FetchCall(kind, name, cursor, resp) ==
    [kind |-> kind, repo |-> name, cursor |-> cursor, resp |-> resp]

\* TagList::with_repo_name: normalize, fetch one page, build the list; the
\* requests made are returned next to the list.
with_repo_name(name, resp) ==
    LET c == check_repo(name) IN
    IF ~c.ok
    THEN [tags |-> with_status(ErrorDisplay(c.err)), calls |-> <<>>]
    ELSE LET f == TagsNew(c.val, resp) IN
         [tags |-> IF f.ok THEN with_tags(f.val)
                   ELSE with_status(ErrorDisplay(f.err)),
          calls |-> <<FetchCall("repo", c.val, "None", resp)>>]

\* TagList::get_selected
get_selected(t) ==
    IF t.cursor = 0
    THEN [ok |-> FALSE, val |-> <<>>, err |-> "NoSelection"]
    ELSE LET row == t.rows[t.cursor] IN
         CASE row.kind = "tag" -> [ok |-> TRUE, val |-> row.name, err |-> ""]
           [] row.kind = "next" ->
                 [ok |-> FALSE, val |-> <<>>, err |-> "NextPageSelected"]
           [] OTHER -> [ok |-> FALSE, val |-> <<>>, err |-> "NoSelection"]

\* impl Display for tag_list::Error
TagListErrorDisplay(e) ==
    CASE e = "NextPageSelected" -> "tried to get the next page"
      [] e = "NoSelection" -> "no tag selected"

\* Selecting the pagination placeholder fetches the page its cursor names
\* (spec.md 4.2); the page's rows take the placeholder's place.
load_next_page(t, resp) ==
    LET f == TagsNew(t.next_page, resp)
        kept == SubSeq(t.rows, 1, Len(t.rows) - 1)
        more == IF f.ok THEN with_tags(f.val)
                ELSE with_status(ErrorDisplay(f.err))
    IN [tags |-> [rows |-> kept \o more.rows,
                  cursor |-> t.cursor,
                  next_page |-> more.next_page],
        calls |-> <<FetchCall("cursor", <<>>, t.next_page, resp)>>]

\* TagList::handle_input(Up/Down): one row at a time, no wraparound
tags_handle_input(t, key) ==
    CASE key.k = "Down" ->
            [t EXCEPT !.cursor = IF t.cursor < Len(t.rows) THEN t.cursor + 1
                                 ELSE t.cursor]
      [] key.k = "Up" ->
            [t EXCEPT !.cursor = IF t.cursor > 1 THEN t.cursor - 1
                                 ELSE IF Len(t.rows) > 0 THEN 1 ELSE 0]
      [] OTHER -> t

\* Details widget: Details::new and TagList::create_detail_widget
details_new == [name |-> <<>>, shown |-> FALSE]

create_detail_widget(t) ==
    IF t.cursor # 0 /\ t.rows[t.cursor].kind = "tag"
    THEN [name |-> t.rows[t.cursor].name, shown |-> TRUE]
    ELSE [name |-> <<>>, shown |-> FALSE]

----------------------------------------------------------------------------
\* ServiceSwitcher widget (spec.md 4.3): the lines of the service-definition
\* file, each with or without an image-reference token, and the highlighted
\* line.

ImageLine(token) == [token |-> token, image |-> TRUE]
OtherLine == [token |-> <<>>, image |-> FALSE]

\* ["  image: nginx", "db:", "  image: ngä"]
FileA == <<ImageLine(Nginx), OtherLine, ImageLine(NgUmlaut)>>

Files == {FileA}

\* ServiceSwitcher::new
services_new(file) == [lines |-> file, selected |-> 1]

\* ServiceSwitcher::find_next_match
find_next_match(s) ==
    LET hits == {i \in DOMAIN s.lines : i > s.selected /\ s.lines[i].image} IN
    IF hits = {} THEN [found |-> FALSE, sw |-> s]
    ELSE [found |-> TRUE,
          sw |-> [s EXCEPT !.selected =
                     CHOOSE i \in hits : \A j \in hits : i <= j]]

\* ServiceSwitcher::find_previous_match
find_previous_match(s) ==
    LET hits == {i \in DOMAIN s.lines : i < s.selected /\ s.lines[i].image} IN
    IF hits = {} THEN [found |-> FALSE, sw |-> s]
    ELSE [found |-> TRUE,
          sw |-> [s EXCEPT !.selected =
                     CHOOSE i \in hits : \A j \in hits : i >= j]]

\* ServiceSwitcher::extract_repo
extract_repo(s) ==
    IF s.lines[s.selected].image
    THEN [ok |-> TRUE, val |-> s.lines[s.selected].token, err |-> ""]
    ELSE [ok |-> FALSE, val |-> <<>>, err |-> "NoSelection"]

\* impl Display for service_switcher::Error
ServiceErrorDisplay(e) ==
    CASE e = "NoSelection" -> "no image found"
      [] e = "Io" -> "could not write the file"
      [] e = "Parse" -> "could not parse the file"

\* ServiceSwitcher::change_current_line: the token is replaced in place
change_current_line(s, text) ==
    IF s.lines[s.selected].image
    THEN [s EXCEPT !.lines[s.selected].token = text]
    ELSE s

\* What the write of the file may end in
SaveResults == {"Ok", "Io", "Parse"}

\* ServiceSwitcher::save: on success the lines are persisted; on failure
\* neither the file nor the lines in memory change
save(s, file, r) ==
    IF r = "Ok"
    THEN [ok |-> TRUE, sw |-> s, file |-> s.lines, err |-> ""]
    ELSE [ok |-> FALSE, sw |-> s, file |-> file, err |-> r]

----------------------------------------------------------------------------
\* Startup (Ui::run up to the core loop)

NoRepo == [text |-> <<>>, some |-> FALSE]
SomeRepo(text) == [text |-> text, some |-> TRUE]

\* Opt.repo
OptRepos == {NoRepo, SomeRepo(Mysql)}

\* The terminal before the first draw and after terminal.clear()
Blank == [drawn |-> FALSE]

\* terminal.draw(..): services, repo, tags, details and info are rendered as
\* they are, the widget of the current state highlighted; none is changed
Render ==
    [drawn |-> TRUE, state |-> state, repo |-> repo, tags |-> tags,
     services |-> services, details |-> details, info |-> info]

\* Ui::run, from `let mut ui = Ui { .. }` to spawn_stdin_channel()
Startup ==
    \E opt \in OptRepos, file \in Files, resp \in Responses :
        LET w == with_repo_name(repo_get(repo_new(opt)), resp) IN
        /\ state = "SelectService"
        /\ repo = repo_new(opt)
        /\ tags = IF opt.some THEN with_status("Tags are empty") ELSE w.tags
        /\ fetchLog = IF opt.some THEN <<>> ELSE w.calls
        /\ services = services_new(file)
        /\ details = details_new
        /\ info = "Select image of edit Repository"
        /\ disk = file
        /\ queue = <<>>
        /\ produced = 0
        /\ taken = 0
        /\ screen = Blank
        /\ saveLog = <<>>
        /\ tabs = 0
        /\ ev = "start"

\* No call of check_repo or format_time_nice on its own is under way
NotCalled == [called |-> FALSE]

NoUnits ==
    /\ input = <<>>
    /\ checked = NotCalled
    /\ time = 0
    /\ age = NotCalled

Init ==
    /\ Startup
    /\ pc = "loop"
    /\ NoUnits

----------------------------------------------------------------------------
\* The listener thread (spawn_stdin_channel): every decoded key is sent.
\* It is not joined when the loop breaks; it lives until the process exits.

Listener ==
    /\ produced < MaxKeys
    /\ Len(queue) < MaxQueue
    /\ \E key \in Keys :
          queue' = Append(queue, [key |-> key, n |-> produced + 1])
    /\ produced' = produced + 1
    /\ UNCHANGED <<state, pc, taken, screen, repo, tags, services, details,
                   info, disk, fetchLog, saveLog, tabs, ev>>
    /\ UNCHANGED units

----------------------------------------------------------------------------
\* The core loop (Ui::run).  One action is one cycle: terminal.draw renders
\* every widget and changes none, then one try_recv and its match arm, then
\* the sleep (or `continue`, or `break` and the terminal.clear() after the
\* loop).

RecvNewest(key) ==
    /\ pc = "loop"
    /\ queue # <<>>
    /\ queue[Len(queue)].key = key
    /\ queue' = SubSeq(queue, 1, Len(queue) - 1)
    /\ taken' = taken + 1
    /\ screen' = IF key = KeyQuit THEN Blank ELSE Render
    /\ produced' = produced
    /\ UNCHANGED units

\* The cycle's draw, then receiver.try_recv() returns Ok(key); Ctrl-q breaks
\* out of the loop to terminal.clear()
Recv(key) ==
    /\ pc = "loop"
    /\ queue # <<>>
    /\ Head(queue).key = key
    /\ queue' = Tail(queue)
    /\ taken' = taken + 1
    /\ screen' = IF key = KeyQuit THEN Blank ELSE Render
    /\ produced' = produced
    /\ UNCHANGED units

PollEmptyResetsInfo ==
    /\ pc = "loop"
    /\ queue = <<>>
    /\ pc' = "loop"
    /\ screen' = Render
    /\ info' = StateDisplay(state)
    /\ UNCHANGED <<state, queue, produced, taken, repo, tags, services,
                   details, disk, fetchLog, saveLog, tabs, ev>>
    /\ UNCHANGED units

\* The cycle's draw, then receiver.try_recv() returns Err(Empty): the arm
\* `_ => ()`
PollEmpty ==
    /\ pc = "loop"
    /\ queue = <<>>
    /\ pc' = "loop"
    /\ screen' = Render
    /\ UNCHANGED <<state, queue, produced, taken, repo, tags, services,
                   details, info, disk, fetchLog, saveLog, tabs, ev>>
    /\ UNCHANGED units

QuitKeyFlush ==
    /\ Recv(KeyQuit)
    /\ pc' = "done"
    /\ ev' = "quit"
    /\ saveLog' = <<"Ok">>
    /\ disk' = services.lines
    /\ fetchLog' = <<>>
    /\ UNCHANGED <<state, repo, tags, services, details, info, tabs>>

\* Ok(Key::Ctrl('q')) => break 'core
QuitKey ==
    /\ Recv(KeyQuit)
    /\ pc' = "done"
    /\ ev' = "quit"
    /\ fetchLog' = <<>>
    /\ saveLog' = <<>>
    /\ UNCHANGED <<state, repo, tags, services, details, info, disk, tabs>>

\* Ok(Key::Char('\t'))
TabKey ==
    /\ Recv(KeyTab)
    /\ state' = StateNext(state)
    /\ info' = StateDisplay(state')
    /\ tabs' = (tabs + 1) % 3
    /\ pc' = "loop"
    /\ ev' = "cycle"
    /\ fetchLog' = <<>>
    /\ saveLog' = <<>>
    /\ UNCHANGED <<repo, tags, services, details, disk>>

SaveKeySilent ==
    /\ Recv(KeySave)
    /\ \E r \in SaveResults :
          LET sv == save(services, disk, r) IN
          /\ saveLog' = <<r>>
          /\ services' = sv.sw
          /\ disk' = sv.file
          /\ info' = info
          /\ ev' = IF sv.ok THEN "saved" ELSE "save_failed"
    /\ pc' = "loop"
    /\ fetchLog' = <<>>
    /\ UNCHANGED <<state, repo, tags, details, tabs>>

\* Ok(Key::Ctrl('s'))
SaveKey ==
    /\ Recv(KeySave)
    /\ \E r \in SaveResults :
          LET sv == save(services, disk, r) IN
          /\ saveLog' = <<r>>
          /\ services' = sv.sw
          /\ disk' = sv.file
          /\ info' = IF sv.ok THEN "Saved compose file"
                     ELSE ServiceErrorDisplay(sv.err)
          /\ ev' = IF sv.ok THEN "saved" ELSE "save_failed"
    /\ pc' = "loop"
    /\ fetchLog' = <<>>
    /\ UNCHANGED <<state, repo, tags, details, tabs>>

ConfirmRepoMerge(label) ==
    /\ repo' = repo_confirm(repo)
    /\ \E resp \in Responses :
          LET w == with_repo_name(repo_get(repo'), resp) IN
          /\ tags' = [w.tags EXCEPT !.rows = tags.rows \o w.tags.rows]
          /\ fetchLog' = w.calls
    /\ pc' = "loop"
    /\ ev' = label
    /\ saveLog' = <<>>
    /\ UNCHANGED <<state, services, details, info, disk, tabs>>

\* ui.repo.confirm(); ui.tags = TagList::with_repo_name(ui.repo.get())
ConfirmRepo(label) ==
    /\ repo' = repo_confirm(repo)
    /\ \E resp \in Responses :
          LET w == with_repo_name(repo_get(repo'), resp) IN
          /\ tags' = w.tags
          /\ fetchLog' = w.calls
    /\ pc' = "loop"
    /\ ev' = label
    /\ saveLog' = <<>>
    /\ UNCHANGED <<state, services, details, info, disk, tabs>>

\* Ok(Key::Ctrl('r'))
ReloadKey ==
    /\ Recv(KeyReload)
    /\ ConfirmRepo("reload")

\* Ok(Key::Char('\n')), State::EditRepo
EnterEditRepo ==
    /\ Recv(KeyEnter)
    /\ state = "EditRepo"
    /\ ConfirmRepo("confirm_repo")

ConfirmTagNoColon(tag) ==
    /\ services' = change_current_line(services, repo_get(repo) \o tag)
    /\ pc' = "loop"
    /\ ev' = "confirm_tag"
    /\ fetchLog' = <<>>
    /\ UNCHANGED <<tags, info>>

\* Ok(tag): repo.push(':'); repo.push_str(&tag); change_current_line(repo)
ConfirmTag(tag) ==
    /\ services' = change_current_line(
                       services, repo_get(repo) \o <<58>> \o tag)
    /\ pc' = "loop"
    /\ ev' = "confirm_tag"
    /\ fetchLog' = <<>>
    /\ UNCHANGED <<tags, info>>

NextPageArmFirstPage ==
    /\ \E resp \in Responses :
          LET w == with_repo_name(repo_get(repo), resp) IN
          /\ tags' = w.tags
          /\ fetchLog' = w.calls
    /\ pc' = "loop"
    /\ ev' = "next_page"
    /\ UNCHANGED <<services, info>>

\* Err(tag_list::Error::NextPageSelected) => continue
NextPageArm ==
    /\ \E resp \in Responses :
          LET n == load_next_page(tags, resp) IN
          /\ tags' = n.tags
          /\ fetchLog' = n.calls
    /\ pc' = "loop"
    /\ ev' = "next_page"
    /\ UNCHANGED <<services, info>>

TagErrorArmPanics(err) ==
    /\ pc' = "done"
    /\ ev' = "no_selection"
    /\ fetchLog' = <<>>
    /\ UNCHANGED <<services, tags, info>>

TagErrorArmSilent(err) ==
    /\ pc' = "loop"
    /\ ev' = "no_selection"
    /\ fetchLog' = <<>>
    /\ UNCHANGED <<services, tags, info>>

\* Err(e) => { ui.info.set_info(&format!("{}", e)); continue; }
TagErrorArm(err) ==
    /\ info' = TagListErrorDisplay(err)
    /\ pc' = "loop"
    /\ ev' = "no_selection"
    /\ fetchLog' = <<>>
    /\ UNCHANGED <<services, tags>>

EnterSelectTagPersists ==
    /\ Recv(KeyEnter)
    /\ state = "SelectTag"
    /\ LET sel == get_selected(tags) IN
       IF sel.ok THEN ConfirmTag(sel.val)
       ELSE IF sel.err = "NextPageSelected" THEN NextPageArm
       ELSE TagErrorArm(sel.err)
    /\ saveLog' = <<>>
    /\ disk' = services'.lines
    /\ UNCHANGED <<state, repo, details, tabs>>

\* Ok(Key::Char('\n')), State::SelectTag
EnterSelectTag ==
    /\ Recv(KeyEnter)
    /\ state = "SelectTag"
    /\ LET sel == get_selected(tags) IN
       IF sel.ok THEN ConfirmTag(sel.val)
       ELSE IF sel.err = "NextPageSelected" THEN NextPageArm
       ELSE TagErrorArm(sel.err)
    /\ saveLog' = <<>>
    /\ UNCHANGED <<state, repo, details, disk, tabs>>

\* Ok(Key::Char('\n')), the arm `_ => ()`
EnterSelectService ==
    /\ Recv(KeyEnter)
    /\ state = "SelectService"
    /\ pc' = "loop"
    /\ ev' = "ignored"
    /\ fetchLog' = <<>>
    /\ saveLog' = <<>>
    /\ UNCHANGED <<state, repo, tags, services, details, info, disk, tabs>>

EditKeyAnyState(key) ==
    /\ Recv(key)
    /\ info' = "Editing Repository"
    /\ repo' = repo_handle_input(repo, key)
    /\ ev' = "edit"
    /\ pc' = "loop"
    /\ fetchLog' = <<>>
    /\ saveLog' = <<>>
    /\ UNCHANGED <<state, tags, services, details, disk, tabs>>

\* Ok(Key::Char(key)) and Ok(Key::Backspace)
EditKey(key) ==
    /\ Recv(key)
    /\ IF state = "EditRepo"
       THEN /\ info' = "Editing Repository"
            /\ repo' = repo_handle_input(repo, key)
            /\ ev' = "edit"
       ELSE /\ UNCHANGED <<info, repo>>
            /\ ev' = "ignored"
    /\ pc' = "loop"
    /\ fetchLog' = <<>>
    /\ saveLog' = <<>>
    /\ UNCHANGED <<state, tags, services, details, disk, tabs>>

CharKey ==
    \E key \in Keys :
        /\ key.k = "Char"
        /\ key \notin {KeyTab, KeyEnter}
        /\ EditKey(key)

BackspaceKey == EditKey(Plain("Backspace"))

NoMatchArmReports ==
    /\ info' = "no match"
    /\ ev' = "no_match"
    /\ fetchLog' = <<>>
    /\ UNCHANGED <<services, repo, tags>>

\* State::SelectService => () when the guard's find_*_match() is false
NoMatchArm ==
    /\ ev' = "no_match"
    /\ fetchLog' = <<>>
    /\ UNCHANGED <<services, repo, tags, info>>

ReselectArmKeepsRepo(moved) ==
    LET e == extract_repo(moved)
        c == check_repo(e.val)
    IN  /\ services' = moved
        /\ IF ~e.ok
           THEN /\ info' = ServiceErrorDisplay(e.err)
                /\ ev' = "no_image"
                /\ fetchLog' = <<>>
                /\ UNCHANGED <<repo, tags>>
           ELSE IF ~c.ok
           THEN /\ info' = ErrorDisplay(c.err)
                /\ ev' = "invalid_repo"
                /\ fetchLog' = <<>>
                /\ UNCHANGED <<repo, tags>>
           ELSE /\ repo' = repo
                /\ \E resp \in Responses :
                      LET w == with_repo_name(repo_get(repo'), resp) IN
                      /\ tags' = w.tags
                      /\ fetchLog' = w.calls
                /\ ev' = "reselect"
                /\ UNCHANGED info

\* State::SelectService if ui.services.find_*_match() => { ... }
ReselectArm(moved) ==
    LET e == extract_repo(moved)
        c == check_repo(e.val)
    IN  /\ services' = moved
        /\ IF ~e.ok
           THEN /\ info' = ServiceErrorDisplay(e.err)
                /\ ev' = "no_image"
                /\ fetchLog' = <<>>
                /\ UNCHANGED <<repo, tags>>
           ELSE IF ~c.ok
           THEN /\ info' = ErrorDisplay(c.err)
                /\ ev' = "invalid_repo"
                /\ fetchLog' = <<>>
                /\ UNCHANGED <<repo, tags>>
           ELSE /\ repo' = repo_set(repo, c.val)
                /\ \E resp \in Responses :
                      LET w == with_repo_name(repo_get(repo'), resp) IN
                      /\ tags' = w.tags
                      /\ fetchLog' = w.calls
                /\ ev' = "reselect"
                /\ UNCHANGED info

ArrowKeyStaleDetails(key) ==
    /\ Recv(key)
    /\ CASE state = "SelectService" ->
            /\ LET m == IF key.k = "Up" THEN find_previous_match(services)
                        ELSE find_next_match(services)
               IN  IF m.found THEN ReselectArm(m.sw) ELSE NoMatchArm
            /\ UNCHANGED details
         [] state = "EditRepo" ->
            /\ ev' = "ignored"
            /\ fetchLog' = <<>>
            /\ UNCHANGED <<services, repo, tags, info, details>>
         [] state = "SelectTag" ->
            /\ tags' = tags_handle_input(tags, key)
            /\ details' = details
            /\ ev' = "move_tag"
            /\ fetchLog' = <<>>
            /\ UNCHANGED <<services, repo, info>>
    /\ pc' = "loop"
    /\ saveLog' = <<>>
    /\ UNCHANGED <<state, disk, tabs>>

\* Ok(Key::Up) and Ok(Key::Down)
ArrowKey(key) ==
    /\ Recv(key)
    /\ CASE state = "SelectService" ->
            /\ LET m == IF key.k = "Up" THEN find_previous_match(services)
                        ELSE find_next_match(services)
               IN  IF m.found THEN ReselectArm(m.sw) ELSE NoMatchArm
            /\ UNCHANGED details
         [] state = "EditRepo" ->
            /\ ev' = "ignored"
            /\ fetchLog' = <<>>
            /\ UNCHANGED <<services, repo, tags, info, details>>
         [] state = "SelectTag" ->
            /\ tags' = tags_handle_input(tags, key)
            /\ details' = create_detail_widget(tags')
            /\ ev' = "move_tag"
            /\ fetchLog' = <<>>
            /\ UNCHANGED <<services, repo, info>>
    /\ pc' = "loop"
    /\ saveLog' = <<>>
    /\ UNCHANGED <<state, disk, tabs>>

UpKey == ArrowKey(Plain("Up"))

DownKey == ArrowKey(Plain("Down"))

OtherKeyCycles ==
    /\ \E key \in Keys :
          /\ key.k \notin {"Char", "Backspace", "Up", "Down"}
          /\ key \notin {KeyQuit, KeySave, KeyReload}
          /\ Recv(key)
    /\ state' = StateNext(state)
    /\ pc' = "loop"
    /\ ev' = "ignored"
    /\ fetchLog' = <<>>
    /\ saveLog' = <<>>
    /\ UNCHANGED <<repo, tags, services, details, info, disk, tabs>>

\* Ok(key) for every other key: the arm `_ => ()`
OtherKey ==
    /\ \E key \in Keys :
          /\ key.k \notin {"Char", "Backspace", "Up", "Down"}
          /\ key \notin {KeyQuit, KeySave, KeyReload}
          /\ Recv(key)
    /\ pc' = "loop"
    /\ ev' = "ignored"
    /\ fetchLog' = <<>>
    /\ saveLog' = <<>>
    /\ UNCHANGED <<state, repo, tags, services, details, info, disk, tabs>>

\* One cycle of the core loop
Cycle ==
    \/ PollEmpty
    \/ QuitKey
    \/ TabKey
    \/ SaveKey
    \/ ReloadKey
    \/ EnterEditRepo
    \/ EnterSelectTag
    \/ EnterSelectService
    \/ CharKey
    \/ BackspaceKey
    \/ UpKey
    \/ DownKey
    \/ OtherKey

Next == Listener \/ Cycle

Spec == Init /\ [][Next]_vars

----------------------------------------------------------------------------
\* The functions of tags.rs called on their own, as mod tests calls
\* check_repo: no Ui is running.

NoUi ==
    /\ state = "SelectService"
    /\ pc = "done"
    /\ queue = <<>>
    /\ produced = 0
    /\ taken = 0
    /\ screen = Blank
    /\ repo = repo_new(NoRepo)
    /\ tags = with_status("Tags are empty")
    /\ services = services_new(FileA)
    /\ details = details_new
    /\ info = ""
    /\ disk = FileA
    /\ fetchLog = <<>>
    /\ saveLog = <<>>
    /\ tabs = 0
    /\ ev = "start"

ui == <<state, pc, queue, produced, taken, screen, repo, tags, services,
        details, info, disk, fetchLog, saveLog, tabs, ev>>

\* The characters of the names tried: 'a', '/', 'ä', '²'
Alphabet == {97, 47, 228, 178}

\* Every name of at most MaxLen characters, and the names of
\* tests::test_check_repo that the texts above spell
Names ==
    UNION {[1..n -> Alphabet] : n \in 0..MaxLen} \cup {Nginx, Mysql, NgUmlaut}

InitCheckRepo ==
    /\ NoUi
    /\ input \in Names
    /\ checked = NotCalled
    /\ time = 0
    /\ age = NotCalled

\* Tags::check_repo(String::from(s))
CallCheckRepo ==
    /\ ~checked.called
    /\ checked' = [called |-> TRUE, res |-> check_repo(input)]
    /\ UNCHANGED <<input, time, age>>
    /\ UNCHANGED ui

SpecCheckRepo == InitCheckRepo /\ [][CallCheckRepo]_vars

\* Seconds past a whole number of weeks, and durations before now
Offsets == {0, 1, 30, 59, 60, 61, 120, 3599, 3600, 7200, 86399, 86400,
            172800, 604799}

Durations ==
    {w * 604800 + d : w \in 0..MaxWeeks, d \in Offsets} \cup {-1, -90, -172800}

InitFormatTime ==
    /\ NoUi
    /\ input = <<>>
    /\ checked = NotCalled
    /\ time \in Durations
    /\ age = NotCalled

\* format_time_nice(dif), as impl Display for Images calls it
CallFormatTime ==
    /\ ~age.called
    /\ age' = [called |-> TRUE, res |-> format_time_nice(time)]
    /\ UNCHANGED <<input, checked, time>>
    /\ UNCHANGED ui

SpecFormatTime == InitFormatTime /\ [][CallFormatTime]_vars

----------------------------------------------------------------------------
\* Vocabulary of the properties

\* The core loop receives `key` in this step
Dispatch(key) ==
    /\ pc = "loop"
    /\ queue # <<>>
    /\ Head(queue).key = key
    /\ queue' = Tail(queue)

Last(seq) == seq[Len(seq)]

\* A text all of whose characters are ASCII
AsciiText(text) == \A i \in DOMAIN text : text[i] < 128

\* The normalized form of an ASCII repository name (spec.md 4.2)
Normalized(text) ==
    IF \E i \in DOMAIN text : text[i] = 47 THEN text
    ELSE <<108, 105, 98, 114, 97, 114, 121, 47>> \o text

\* "library/mysql"
LibraryMysql == <<108, 105, 98, 114, 97, 114, 121, 47, 109, 121, 115, 113, 108>>

\* The list `t` shows one status row carrying `msg` and nothing else
OnlyStatus(t, msg) ==
    /\ Len(t.rows) = 1
    /\ t.rows[1].kind = "status"
    /\ t.rows[1].msg = msg

\* The list `t` holds what the response `resp` delivered and nothing else:
\* the page's tags in order (and the placeholder if the page has a forward
\* cursor), or the one error row of a failed request.
FreshFrom(t, resp) ==
    LET f == TagsNew(<<>>, resp)
        n == Len(f.val.results)
    IN  /\ t.cursor = 0
        /\ IF f.ok
           THEN /\ Len(t.rows) = n + (IF f.val.next_page # "None" THEN 1 ELSE 0)
                /\ \A i \in 1..n : /\ t.rows[i].kind = "tag"
                                   /\ t.rows[i].name = f.val.results[i]
                /\ \A i \in (n + 1)..Len(t.rows) : t.rows[i].kind = "next"
           ELSE OnlyStatus(t, ErrorDisplay(f.err))

\* One request was issued in this step, for the repository `name`
FetchedRepo(name) ==
    /\ Len(fetchLog') = 1
    /\ Last(fetchLog').kind = "repo"
    /\ Last(fetchLog').repo = name

ArrowKeys == {Plain("Up"), Plain("Down")}

EditKeys == {key \in Keys : key.k = "Char" /\ key \notin {KeyTab, KeyEnter}}
            \cup {Plain("Backspace")}

\* The move an arrow key asks of the ServiceSwitcher
Move(key) ==
    IF key.k = "Up" THEN find_previous_match(services)
    ELSE find_next_match(services)

----------------------------------------------------------------------------
\* C1: the successor function has cycle length 3: it maps EditRepo to
\* SelectTag, SelectTag to SelectService and SelectService to EditRepo, never
\* leaves the three states, and after every third cycle key the
\* InteractionState is the one the loop started in.
C1_SuccessorCycle ==
    /\ \A s \in States :
          /\ StateNext(s) \in States
          /\ StateNext(StateNext(StateNext(s))) = s
    /\ StateNext("EditRepo") = "SelectTag"
    /\ StateNext("SelectTag") = "SelectService"
    /\ StateNext("SelectService") = "EditRepo"
    /\ state \in States
    /\ tabs = 0 => state = "SelectService"
    /\ tabs = 1 => state = "EditRepo"
    /\ tabs = 2 => state = "SelectTag"

C1_Witness == ev = "cycle" /\ tabs = 0 /\ state = "SelectService"

\* C2: receiving the quit key ends the loop in that cycle, in every
\* InteractionState: no widget changes, save() is not called, no request is
\* issued, the file is not written; and once the loop has ended no key is
\* taken from the queue and nothing changes any more.
C2_QuitTerminates ==
    [][/\ Dispatch(KeyQuit) =>
             /\ pc' = "done"
             /\ UNCHANGED <<state, repo, tags, services, details, info>>
             /\ saveLog' = <<>>
             /\ fetchLog' = <<>>
             /\ UNCHANGED disk
       /\ pc = "done" =>
             /\ pc' = "done"
             /\ Len(queue') >= Len(queue)
             /\ UNCHANGED <<state, repo, tags, services, details, info>>
             /\ UNCHANGED <<saveLog, fetchLog, disk>>]_vars

C2_Witness == pc = "done" /\ ev = "quit" /\ queue # <<>>

C4_SaveFailure ==
    [][Dispatch(KeySave) =>
          /\ Len(saveLog') = 1
          /\ Last(saveLog') # "Ok" =>
                /\ UNCHANGED <<services, state, repo, tags, disk>>
                /\ info' = ServiceErrorDisplay(Last(saveLog'))
                /\ pc' = "loop"]_vars

C4_Witness ==
    /\ ev = "save_failed"
    /\ Last(saveLog) = "Io"
    /\ info = "could not write the file"
    /\ state = "EditRepo"
    /\ pc = "loop"

\* C5: the confirm key in EditRepo issues one request for the normalized
\* form of RepoEntry's buffer ("mysql" requests "library/mysql") and the
\* TagList becomes exactly what that request delivered, tags or error row,
\* with no row of the list shown before; a buffer that has no normalized
\* form issues no request and leaves only the error row.
C5_ConfirmEditRepo ==
    [][Dispatch(KeyEnter) /\ state = "EditRepo" =>
          /\ repo.text = Mysql => FetchedRepo(LibraryMysql)
          /\ IF AsciiText(repo.text)
             THEN /\ FetchedRepo(Normalized(repo.text))
                  /\ FreshFrom(tags', Last(fetchLog').resp)
             ELSE /\ fetchLog' = <<>>
                  /\ OnlyStatus(tags', "Invalid Character: a")]_vars

C5_Witness ==
    /\ ev = "confirm_repo"
    /\ repo.text = Mysql
    /\ fetchLog # <<>>
    /\ Last(fetchLog).repo = LibraryMysql
    /\ Last(fetchLog).resp = "page1"
    /\ Len(tags.rows) = 2
    /\ tags.rows[1].name = Latest

\* C6 as stated: the confirm key in SelectTag on a tag t writes the current
\* image token of the ServiceSwitcher followed by ":" and t to the current
\* service line.
C6_Original ==
    [][Dispatch(KeyEnter) /\ state = "SelectTag" /\ get_selected(tags).ok
       /\ extract_repo(services).ok =>
          services' = [services EXCEPT !.lines[services.selected].token =
                          extract_repo(services).val \o <<58>>
                              \o get_selected(tags).val]]_vars

\* C6 as amended: the confirm key in SelectTag on a tag t writes RepoEntry's
\* buffer followed by ":" and t to the current service line; no other
\* service line and nothing else of the ServiceSwitcher changes.
C6_ConfirmSelectTag ==
    [][Dispatch(KeyEnter) /\ state = "SelectTag" /\ get_selected(tags).ok
       /\ services.lines[services.selected].image =>
          /\ services'.lines[services.selected].token =
                repo.text \o <<58>> \o get_selected(tags).val
          /\ services'.selected = services.selected
          /\ Len(services'.lines) = Len(services.lines)
          /\ \A i \in DOMAIN services.lines :
                /\ i # services.selected =>
                      services'.lines[i] = services.lines[i]
                /\ services'.lines[i].image = services.lines[i].image
          /\ UNCHANGED <<repo, tags, disk>>]_vars

C6_Witness ==
    /\ ev = "confirm_tag"
    /\ services.lines[services.selected].token = repo.text \o <<58>> \o Latest
    /\ services.lines[services.selected].token # Nginx \o <<58>> \o Latest

\* The error message `msg` is on the screen after this step: in Info, or as a
\* status row of the TagList
Shown(msg) ==
    \/ info' = msg
    \/ \E i \in DOMAIN tags'.rows :
          tags'.rows[i].kind = "status" /\ tags'.rows[i].msg = msg

\* What C7 says of the errors that do end in a message: a failed save, a
\* repository name with a non-ASCII byte, a failed or undecodable request,
\* and the confirm key in SelectTag with no tag highlighted.
ReportedErrors ==
    /\ Dispatch(KeySave) /\ Last(saveLog') # "Ok" =>
          pc' = "loop" /\ info' = ServiceErrorDisplay(Last(saveLog'))
    /\ (Dispatch(KeyEnter) /\ state = "EditRepo") \/ Dispatch(KeyReload) =>
          /\ pc' = "loop"
          /\ ~AsciiText(repo.text) => Shown("Invalid Character: a")
          /\ AsciiText(repo.text) /\ Last(fetchLog').resp = "transport" =>
                Shown("Fetching error: reqwest error")
          /\ AsciiText(repo.text) /\ Last(fetchLog').resp = "badjson" =>
                Shown("Converting error: invalid json")
    /\ \A key \in ArrowKeys :
          Dispatch(key) /\ state = "SelectService" /\ Move(key).found =>
             /\ pc' = "loop"
             /\ ~AsciiText(extract_repo(Move(key).sw).val) =>
                   info' = "Invalid Character: a"
             /\ AsciiText(extract_repo(Move(key).sw).val)
                /\ Last(fetchLog').resp = "transport" =>
                   Shown("Fetching error: reqwest error")
             /\ AsciiText(extract_repo(Move(key).sw).val)
                /\ Last(fetchLog').resp = "badjson" =>
                   Shown("Converting error: invalid json")
    /\ Dispatch(KeyEnter) /\ state = "SelectTag"
       /\ get_selected(tags).err = "NoSelection" =>
          /\ pc' = "loop"
          /\ services' = services
          /\ info' = TagListErrorDisplay("NoSelection")

C8_EditKeysRouted ==
    [][\A key \in EditKeys : Dispatch(key) =>
          IF state = "EditRepo"
          THEN /\ info' = "Editing Repository"
               /\ repo'.text = IF key.k = "Char" THEN Append(repo.text, key.c)
                               ELSE IF repo.text = <<>> THEN <<>>
                               ELSE SubSeq(repo.text, 1, Len(repo.text) - 1)
               /\ UNCHANGED <<state, tags, services, details>>
          ELSE UNCHANGED <<state, repo, tags, services, details, info>>]_vars

C8_Witness ==
    /\ ev = "edit"
    /\ state = "EditRepo"
    /\ info = "Editing Repository"
    /\ repo.text = Append(Mysql, 97)
    /\ repo.active = Mysql

C10_Reselect ==
    [][\A key \in ArrowKeys :
          Dispatch(key) /\ state = "SelectService" /\ Move(key).found =>
             LET line == Move(key).sw.lines[Move(key).sw.selected] IN
             /\ services' = Move(key).sw
             /\ line.image
             /\ IF line.image /\ AsciiText(line.token)
                THEN /\ repo'.text = Normalized(line.token)
                     /\ FetchedRepo(Normalized(line.token))
                     /\ FreshFrom(tags', Last(fetchLog').resp)
                ELSE /\ UNCHANGED <<repo, tags>>
                     /\ fetchLog' = <<>>]_vars

C10_Witness ==
    /\ ev = "reselect"
    /\ services.selected = 1
    /\ repo.text = <<108, 105, 98, 114, 97, 114, 121, 47>> \o Nginx
    /\ Last(fetchLog).repo = repo.text
    /\ Last(fetchLog).resp = "page2"
    /\ tags.rows = <<TagRow(V57)>>

\* C11: the TagList's highlighted row index is always within the rows (0: no
\* row highlighted); an arrow key in SelectTag moves it by at most one and
\* never past an end (Down on the last row and Up on the first row leave it
\* there, no wraparound), leaves the rows as they are, the loop goes on, and
\* Details is what the new selection projects.
C11_TagNavigation ==
    /\ [](tags.cursor \in 0..Len(tags.rows))
    /\ [][\A key \in ArrowKeys : Dispatch(key) /\ state = "SelectTag" =>
             /\ tags'.rows = tags.rows
             /\ tags'.cursor \in 0..Len(tags.rows)
             /\ tags'.cursor - tags.cursor \in {-1, 0, 1}
             /\ key.k = "Down" => tags'.cursor >= tags.cursor
             /\ key.k = "Up" /\ tags.cursor > 0 => tags'.cursor <= tags.cursor
             /\ key.k = "Down" /\ tags.cursor = Len(tags.rows) =>
                   tags'.cursor = tags.cursor
             /\ key.k = "Up" /\ tags.cursor = 1 => tags'.cursor = 1
             /\ details' = IF tags'.cursor # 0
                              /\ tags'.rows[tags'.cursor].kind = "tag"
                           THEN [shown |-> TRUE,
                                 name |-> tags'.rows[tags'.cursor].name]
                           ELSE [shown |-> FALSE, name |-> <<>>]
             /\ pc' = "loop"]_vars

C11_Witness ==
    /\ ev = "move_tag"
    /\ state = "SelectTag"
    /\ Len(tags.rows) = 2
    /\ tags.cursor = 1
    /\ details = [shown |-> TRUE, name |-> Latest]

\* The number of namespace separators in a text
RECURSIVE Separators(_)
Separators(text) ==
    IF text = <<>> THEN 0
    ELSE (IF Head(text) = 47 THEN 1 ELSE 0) + Separators(Tail(text))

\* C12: for every ASCII string s check_repo succeeds; it returns "library/"
\* followed by s when s contains no "/", and s itself when s contains one.
C12_AsciiNormalized ==
    checked.called /\ AsciiText(input) =>
        /\ checked.res.ok
        /\ Separators(input) = 0 =>
              checked.res.val = <<108, 105, 98, 114, 97, 114, 121, 47>> \o input
        /\ Separators(input) > 0 => checked.res.val = input

C12_Witness ==
    /\ checked.called
    /\ input = Mysql
    /\ checked.res.ok
    /\ checked.res.val = LibraryMysql

\* C13: for every string with a non-ASCII byte (every string with a
\* character above U+007F), with or without a "/", check_repo fails with
\* InvalidCharacter and returns no repository name.
C13_NonAsciiRejected ==
    checked.called /\ ~AsciiText(input) =>
        /\ ~checked.res.ok
        /\ checked.res.err = "InvalidCharacter"
        /\ checked.res.val = <<>>

C13_Witness ==
    /\ checked.called
    /\ input = <<97, 47, 228>>
    /\ ~checked.res.ok
    /\ checked.res.err = "InvalidCharacter"

\* C14: every repository name a successful check_repo returns contains
\* exactly one namespace separator "/".
C14_OneSeparator ==
    checked.called /\ checked.res.ok => Separators(checked.res.val) = 1

\* C15: format_time_nice labels 24 hours "1 Tag" (the singular day label),
\* 48 hours "2 Tagen" (plural days), 30 seconds "30 Sekunden" (plural
\* seconds), exactly 52 weeks "1 Jahr" (singular year) and 104 weeks
\* "2 Jahren" (plural years).
C15_FormatAgeVectors ==
    age.called =>
        /\ time = 24 * 3600 => age.res = [n |-> 1, unit |-> "Tag"]
        /\ time = 48 * 3600 => age.res = [n |-> 2, unit |-> "Tagen"]
        /\ time = 30 => age.res = [n |-> 30, unit |-> "Sekunden"]
        /\ time = 52 * 7 * 24 * 3600 => age.res = [n |-> 1, unit |-> "Jahr"]
        /\ time = 104 * 7 * 24 * 3600 => age.res = [n |-> 2, unit |-> "Jahren"]

C15_Witness ==
    /\ age.called
    /\ time = 104 * 7 * 24 * 3600
    /\ age.res = [n |-> 2, unit |-> "Jahren"]

\* The match arms a key can take, by the label each leaves in ev
ArmsOf(key) ==
    CASE key = KeyQuit -> {"quit"}
      [] key = KeyTab -> {"cycle"}
      [] key = KeySave -> {"saved", "save_failed"}
      [] key = KeyReload -> {"reload"}
      [] key = KeyEnter -> {"confirm_repo", "confirm_tag", "next_page",
                            "no_selection", "ignored"}
      [] key \in EditKeys -> {"edit", "ignored"}
      [] key \in ArrowKeys -> {"reselect", "no_image", "invalid_repo",
                               "no_match", "move_tag", "ignored"}
      [] OTHER -> {"ignored"}

\* C16: the listener and the loop share nothing but the queue.  The keys in
\* flight are exactly the keys sent and not yet received, in sending order;
\* the listener only appends the key it decoded and touches nothing of the
\* loop; a cycle that changes anything has received exactly one key, the
\* oldest one in flight, and the arm it ran is an arm of that key; so the keys
\* dispatched are the keys sent, in order, none lost, doubled, reordered or
\* merged, however sending and cycles interleave; a cycle that finds the
\* queue empty receives nothing.  A running loop is never blocked by the
\* queue: a cycle is always possible, with a key or without.
C16_Channel ==
    /\ [](/\ taken + Len(queue) = produced
          /\ \A i \in DOMAIN queue : queue[i].n = taken + i
          /\ \A i \in DOMAIN queue : queue[i].key \in Keys)
    /\ [][\/ /\ produced' = produced + 1
              /\ \E key \in Keys :
                    queue' = Append(queue, [key |-> key, n |-> produced'])
              /\ UNCHANGED <<taken, pc, state, ev, disk>>
              /\ UNCHANGED <<repo, tags, services, details, info>>
           \/ /\ pc = "loop"
              /\ queue # <<>>
              /\ queue' = Tail(queue)
              /\ taken' = taken + 1
              /\ Head(queue).n = taken'
              /\ ev' \in ArmsOf(Head(queue).key)
              /\ produced' = produced
           \/ /\ pc = "loop"
              /\ queue = <<>>
              /\ UNCHANGED <<queue, taken, produced, ev>>]_vars
    /\ [](pc = "loop" => ENABLED Cycle)

C16_Witness ==
    /\ ev = "reload"
    /\ fetchLog # <<>>
    /\ taken = 2
    /\ Len(queue) = 2
    /\ queue[1].n = 3
    /\ queue[2].n = 4

\* The rows one answer of the registry makes: the tags of its one page (and
\* the placeholder if the page has a forward cursor), or the error row
PageRows(resp) ==
    CASE resp = "page0" -> <<NextRow>>
      [] resp = "page1" -> <<TagRow(<<108, 97, 116, 101, 115, 116>>), NextRow>>
      [] resp = "page2" -> <<TagRow(<<53, 46, 55>>)>>
      [] resp = "transport" -> <<StatusRow("Fetching error: reqwest error")>>
      [] resp = "badjson" -> <<StatusRow("Converting error: invalid json")>>

\* The forward cursor one answer of the registry carries
PageCursor(resp) ==
    CASE resp = "page0" -> "page=1"
      [] resp = "page1" -> "page=2"
      [] OTHER -> "None"

C18_Original ==
    age.called /\ time > 52 * 604800 /\ time < 103 * 604800 =>
        age.res = [n |-> time \div 86400, unit |-> "Tagen"]

\* C18 as amended: format_time_nice takes the first branch that matches.  A
\* duration of 52 whole weeks (52 weeks up to, not including, 53 weeks)
\* matches the first branch and is labelled "1 Jahr", although the days
\* branch matches it too; every duration whose whole weeks are strictly
\* between 52 and 103 (53 weeks up to, not including, 103 weeks) matches
\* neither year branch and gets the plural days label "N Tagen", N its whole
\* days, instead of a year label.
C18_YearGap ==
    age.called =>
        /\ time \div 604800 = 52 => age.res = [n |-> 1, unit |-> "Jahr"]
        /\ time \div 604800 > 52 /\ time \div 604800 < 103 =>
              age.res = [n |-> time \div 86400, unit |-> "Tagen"]

C18_Witness ==
    /\ age.called
    /\ time = 53 * 604800
    /\ age.res = [n |-> 371, unit |-> "Tagen"]

\* C19: the persisted file changes only in a step that receives the save key
\* and whose save() succeeds, and then it becomes the service lines in memory;
\* every other key, the confirm key in SelectTag (which rewrites a service
\* line in memory) and the quit key among them, and a failed save leave the
\* file as it was after the last successful save or at startup.
C19_SavedOnlyBySave ==
    [][/\ disk' # disk =>
             /\ Dispatch(KeySave)
             /\ saveLog' = <<"Ok">>
             /\ disk' = services.lines
       /\ \A key \in Keys \ {KeySave} : Dispatch(key) =>
             /\ disk' = disk
             /\ saveLog' = <<>>
       /\ Dispatch(KeySave) /\ saveLog' # <<"Ok">> => disk' = disk
       /\ Dispatch(KeySave) /\ saveLog' = <<"Ok">> => disk' = services.lines
       /\ Dispatch(KeyEnter) /\ state = "SelectTag" /\ get_selected(tags).ok =>
             /\ services'.lines[services.selected].token =
                   repo.text \o <<58>> \o get_selected(tags).val
             /\ disk' = disk]_vars

C19_Witness ==
    /\ ev = "confirm_tag"
    /\ disk = FileA
    /\ services.lines # disk
    /\ services.lines[1].token = <<58>> \o Latest

\* C20: a cycle that finds the queue empty changes nothing: the
\* InteractionState, every widget, the file and the loop's position are as
\* before, no save and no request is made, so a message shown in Info or in
\* the TagList is still there at the next render.  Rendering happens in every
\* cycle, with a key or without: what is on the terminal after a cycle is the
\* state and the widgets as they were when the cycle began; and a running
\* loop with an empty queue can always make such a cycle.
C20_EmptyPoll ==
    /\ [][/\ pc = "loop" /\ queue = <<>> /\ queue' = <<>> =>
                /\ UNCHANGED <<state, repo, tags, services, details, info>>
                /\ UNCHANGED <<disk, pc, fetchLog, saveLog, taken, produced>>
                /\ screen'.drawn
                /\ screen'.info = info'
                /\ screen'.tags = tags'
                /\ screen'.state = state'
          /\ pc = "loop" /\ pc' = "loop"
             /\ (taken' # taken \/ screen' # screen) =>
                screen' = [drawn |-> TRUE, state |-> state, repo |-> repo,
                           tags |-> tags, services |-> services,
                           details |-> details, info |-> info]]_vars
    /\ [](pc = "loop" /\ queue = <<>> =>
             ENABLED (Cycle /\ UNCHANGED <<state, widgets, queue>>))

C20_Witness ==
    /\ ev = "save_failed"
    /\ produced = 1
    /\ taken = 1
    /\ pc = "loop"
    /\ info = "could not write the file"
    /\ screen.drawn
    /\ screen.info = "could not write the file"

----------------------------------------------------------------------------
\* C21: the InteractionState is SelectService as long as the loop has received
\* no key, and only the cycle key (Tab) changes it: a step that changes the
\* InteractionState receives Tab, and a cycle that receives any other key
\* (quit, save, Ctrl-r, confirm, a character, backspace, Up, Down, an unbound
\* key), whether its arm succeeds or fails, leaves the InteractionState as it
\* was; so does a cycle that receives nothing and a key the listener sends.
C21_OnlyTabChangesState ==
    [][ /\ taken = 0 => state = "SelectService"
        /\ state' # state => Dispatch(KeyTab) /\ taken' # taken
        /\ \A key \in Keys \ {KeyTab} :
              Dispatch(key) /\ taken' # taken => state' = state
        /\ taken' = taken => state' = state
      ]_vars

\* A save that failed while the repository was being edited: a key other
\* than Tab was handled, on its error path, away from the initial state.
C21_Witness ==
    /\ state = "EditRepo"
    /\ ev = "save_failed"
    /\ saveLog # <<>>

====
